---- MODULE Spec2Model ----
(***************************************************************************)
(* The chat application of ai-hero: the Conversation Store (upsertChat,    *)
(* getChat; server/db/queries) and the POST handlers of /api/chat that     *)
(* drive the tool-augmented streaming loop and persist the turn.           *)
(***************************************************************************)
EXTENDS Integers, Sequences, FiniteSets, Bags, TLC

VARIABLES
    chats,      \* the chats table: a set of rows [id, userId, title]
    messages,   \* the messages table: a bag of rows [chatId, role, parts, order]
    last,       \* the latest direct call of a store operation and what it returned
    req,        \* the request the POST handler is serving
    procs       \* the calls of upsertChat that run step by step, one per caller

vars == <<chats, messages, last, req, procs>>

(***************************************************************************)
(* Bounds of the model.                                                    *)
(***************************************************************************)
\* longest message list a caller hands to upsertChat directly
MaxMsgs == 2
\* longest message list a client posts
MaxReqMsgs == 1
\* most URLs the model hands to scrapePages in one call
MaxUrls == 2

(***************************************************************************)
(* Data.                                                                   *)
(***************************************************************************)
Users == {"u1", "u2"}
ChatIds == {"c1", "c2"}

\* title: content.slice(0, 50) + "..."
TitleSlice == 50

Min(a, b) == IF a <= b THEN a ELSE b

\* String.prototype.slice(0, n) on a string held as a sequence of characters
Slice(s, n) == SubSeq(s, 1, Min(n, Len(s)))

Dots == <<".", ".", ".">>

ShortContent == <<"h", "i">>
\* a content longer than the title slice
LongContent == [i \in 1..(TitleSlice + 1) |-> "x"]

UserShort == [role |-> "user", content |-> ShortContent, parts |-> <<"text">>]
UserLong == [role |-> "user", content |-> LongContent, parts |-> <<"text">>]

\* the messages a client sends
ClientMessages == {UserShort, UserLong}

\* title: messages[messages.length - 1]!.content.slice(0, 50) + "..."
TitleOf(msgs) == Slice(msgs[Len(msgs)].content, TitleSlice) \o Dots

SeqsUpTo(S, n) == UNION {[1..k -> S] : k \in 0..n}

(***************************************************************************)
(* The Conversation Store: server/db/queries.                              *)
(***************************************************************************)
\* db.query.chats.findFirst({ where: and(eq(chats.id, c), eq(chats.userId, u)) }):
\* the rows found, none when findFirst returns undefined
FindChatByIdAndUser(cs, c, u) == {r \in cs : r.id = c /\ r.userId = u}

\* db.query.chats.findFirst({ where: eq(chats.id, c) })
FindChatById(cs, c) == {r \in cs : r.id = c}

\* db.insert(chats).values(row): chats.id is the table's key, a second row with
\* the same id is refused by the database
InsertChat(cs, row) ==
    IF \E r \in cs : r.id = row.id
    THEN [chats |-> cs, err |-> "UniqueViolation"]
    ELSE [chats |-> cs \cup {row}, err |-> "none"]

\* db.update(chats).set({ title }).where(eq(chats.id, c))
UpdateTitle(cs, c, title) ==
    {IF r.id = c THEN [r EXCEPT !.title = title] ELSE r : r \in cs}

\* mutant of DeleteMessages: the stored messages are not deleted
DeleteMessages_Nothing(ms, c) == ms

\* db.delete(messages).where(eq(messages.chatId, c))
DeleteMessages(ms, c) ==
    [r \in {x \in DOMAIN ms : x.chatId # c} |-> ms[r]]

\* mutant of MessageRows: the order field counts from one
MessageRows_OneBased(c, msgs) ==
    [i \in 1..Len(msgs) |->
        [chatId |-> c, role |-> msgs[i].role, parts |-> msgs[i].parts,
         order |-> i]]

\* opts.messages.map((msg, i) => ({ chatId, role, parts, order: i }))
MessageRows(c, msgs) ==
    [i \in 1..Len(msgs) |->
        [chatId |-> c, role |-> msgs[i].role, parts |-> msgs[i].parts,
         order |-> i - 1]]

RECURSIVE InsertRows(_, _)
\* db.insert(messages).values(rows)
InsertRows(ms, rows) ==
    IF rows = <<>> THEN ms
    ELSE InsertRows(ms (+) SetToBag({Head(rows)}), Tail(rows))

\* the part of upsertChat after the chat row is settled: insert the new messages
InsertMessages(ms, c, msgs) ==
    IF Len(msgs) > 0 THEN InsertRows(ms, MessageRows(c, msgs)) ELSE ms

\* mutant of UpsertChat: the chat is looked up by its id alone and its owner is
\* not compared with the caller
UpsertChat_AnyOwner(cs, ms, userId, chatId, title, msgs) ==
    LET found == FindChatById(cs, chatId)
    IN  IF found = {}
        THEN LET ins == InsertChat(cs, [id |-> chatId, userId |-> userId,
                                        title |-> title])
             IN  IF ins.err # "none"
                 THEN [chats |-> cs, messages |-> ms, err |-> ins.err]
                 ELSE [chats |-> ins.chats,
                       messages |-> InsertMessages(ms, chatId, msgs),
                       err |-> "none"]
        ELSE LET chat == CHOOSE r \in found : TRUE
                 cs2 == IF chat.title # title
                        THEN UpdateTitle(cs, chatId, title) ELSE cs
                 ms2 == DeleteMessages(ms, chatId)
             IN  [chats |-> cs2,
                  messages |-> InsertMessages(ms2, chatId, msgs),
                  err |-> "none"]

\* upsertChat(opts): the tables after the call and the error it threw, if any
UpsertChat(cs, ms, userId, chatId, title, msgs) ==
    LET found == FindChatByIdAndUser(cs, chatId, userId)
    IN  IF found = {}
        THEN LET ins == InsertChat(cs, [id |-> chatId, userId |-> userId,
                                        title |-> title])
             IN  IF ins.err # "none"
                 THEN [chats |-> cs, messages |-> ms, err |-> ins.err]
                 ELSE [chats |-> ins.chats,
                       messages |-> InsertMessages(ms, chatId, msgs),
                       err |-> "none"]
        ELSE LET chat == CHOOSE r \in found : TRUE
             IN  IF chat.userId # userId
                 THEN [chats |-> cs, messages |-> ms, err |-> "OwnershipConflict"]
                 ELSE LET cs2 == IF chat.title # title
                                 THEN UpdateTitle(cs, chatId, title) ELSE cs
                          ms2 == DeleteMessages(ms, chatId)
                      IN  [chats |-> cs2,
                           messages |-> InsertMessages(ms2, chatId, msgs),
                           err |-> "none"]

\* db.query.messages.findMany({ where: eq(messages.chatId, c), orderBy: [messages.order] }):
\* every sequence the query may return (rows of equal order come in any order)
FindMessagesOrdered(ms, c) ==
    LET mine == [r \in {x \in DOMAIN ms : x.chatId = c} |-> ms[r]]
        n == BagCardinality(mine)
    IN  {s \in [1..n -> DOMAIN mine] :
            /\ \A r \in DOMAIN mine : Cardinality({i \in 1..n : s[i] = r}) = mine[r]
            /\ \A i, j \in 1..n : i < j => s[i].order <= s[j].order}

NotFound == [found |-> FALSE]

\* mutant of GetChat: the chat is looked up by its id alone
GetChat_AnyOwner(cs, ms, userId, chatId) ==
    LET found == FindChatById(cs, chatId)
    IN  IF found = {} THEN {NotFound}
        ELSE {[found |-> TRUE, chat |-> CHOOSE r \in found : TRUE, messages |-> m] :
                 m \in FindMessagesOrdered(ms, chatId)}

\* getChat(opts): every value the call may return, NotFound standing for null
GetChat(cs, ms, userId, chatId) ==
    LET found == FindChatByIdAndUser(cs, chatId, userId)
    IN  IF found = {} THEN {NotFound}
        ELSE {[found |-> TRUE, chat |-> CHOOSE r \in found : TRUE, messages |-> m] :
                 m \in FindMessagesOrdered(ms, chatId)}

(***************************************************************************)
(* The callers of upsertChat whose call runs one database operation at a   *)
(* time.                                                                   *)
(***************************************************************************)
Procs == {"p1", "p2"}

\* a caller with no call in flight
IdleProc == [pc |-> "idle"]

IdleProcs == [p \in Procs |-> IdleProc]

(***************************************************************************)
(* The request the POST handler is serving.                                *)
(***************************************************************************)
\* the tools streamText is given
ToolNames == {"searchWeb", "scrapePages"}

\* auth() returned no session
Anonymous == "anonymous"

\* the body carries no chatId (day1)
NoChatId == ""

\* a tool the step has no outcome of
NoOutcome == [status |-> "none", error |-> FALSE]

NoResults == [t \in ToolNames |-> NoOutcome]

IdleReq ==
    [pc |-> "idle", app |-> "day3", session |-> Anonymous, msgs |-> <<>>,
     chatId |-> NoChatId, isNewChat |-> FALSE, foreign |-> FALSE, owned |-> FALSE,
     http |-> 0, state |-> "Idle", steps |-> 0, calls |-> {}, pending |-> {},
     results |-> NoResults, failed |-> {}, finishReason |-> "none", frames |-> <<>>,
     nNewChat |-> 0, nError |-> 0, wrote |-> 0, saveFailed |-> FALSE,
     logged |-> FALSE, aborted |-> FALSE, abortedIn |-> "none"]

(***************************************************************************)
(* Direct calls of the store operations.                                   *)
(***************************************************************************)
NoCall == [op |-> "none"]


\* the titles callers hand to upsertChat
Titles == {TitleOf(<<m>>) : m \in ClientMessages}

AssistantText == [role |-> "assistant", content |-> <<"o", "k">>, parts |-> <<"text">>]

\* the messages direct callers hand to upsertChat: a client's and the model's
StoredMessages == {UserShort, AssistantText}

\* The record of a call keeps the title and the messages of a call that
\* succeeded; a call that failed wrote nothing, and its record says who asked.
CallUpsert(u, c, t, msgs) ==
    \E r \in {UpsertChat(chats, messages, u, c, t, msgs)} :
    LET \* a chat row with this id existed under another user
        foreign == \E x \in chats : x.id = c /\ x.userId # u
    IN  /\ chats' = r.chats
        /\ messages' = r.messages
        /\ last' = IF r.err = "none"
                   THEN [op |-> "upsert", userId |-> u, chatId |-> c, title |-> t,
                         msgs |-> msgs, err |-> r.err, foreign |-> foreign,
                         \* the chat had stored messages when the call was made
                         prior |-> \E x \in DOMAIN messages : x.chatId = c,
                         \* the call before was the same call, and it succeeded
                         again |-> /\ last.op = "upsert" /\ last.err = "none"
                                   /\ last.userId = u /\ last.chatId = c
                                   /\ last.title = t /\ last.msgs = msgs]
                   ELSE [op |-> "upsert", userId |-> u, chatId |-> c,
                         err |-> r.err, foreign |-> foreign, again |-> FALSE]
        /\ UNCHANGED <<req, procs>>

CallGet(u, c) ==
    /\ \E res \in GetChat(chats, messages, u, c) :
          last' = [op |-> "get", userId |-> u, chatId |-> c, result |-> res,
                   foreign |-> \E x \in chats : x.id = c /\ x.userId # u,
                   exists |-> \E x \in chats : x.id = c]
    /\ UNCHANGED <<chats, messages, req, procs>>

InitStore ==
    /\ chats = {}
    /\ messages = EmptyBag
    /\ last = NoCall
    /\ req = IdleReq
    /\ procs = IdleProcs

NextStore ==
    \/ \E u \in Users, c \in ChatIds, t \in Titles,
          msgs \in SeqsUpTo(StoredMessages, MaxMsgs) : CallUpsert(u, c, t, msgs)
    \/ \E u \in Users, c \in ChatIds : CallGet(u, c)

SpecStore == InitStore /\ [][NextStore]_vars

(***************************************************************************)
(* Claims about the store operations, checked under SpecStore.             *)
(***************************************************************************)
\* a chat id no row carries
AbsentChatId == "c0"

\* the rows of chat c as upsertChat is meant to leave them for the list msgs
ExpectedRows(c, msgs) == SetToBag({MessageRows(c, msgs)[i] : i \in 1..Len(msgs)})

RowsOf(ms, c) == [r \in {x \in DOMAIN ms : x.chatId = c} |-> ms[r]]

\* C1: an upsert on a chat id that exists under another user fails with the
\* ownership-conflict error and leaves the chat rows and the message rows as
\* they were.
C1_OwnershipConflict ==
    [][(last'.op = "upsert" /\ last'.foreign)
        => (last'.err = "OwnershipConflict" /\ chats' = chats /\ messages' = messages)]_vars

\* C2: in every store state, getChat for a chat another user owns returns what
\* it returns for a chat id that does not exist (null), and whatever getChat
\* returns is the requester's own chat with that chat's messages.
C2_GetHidesForeignChats ==
    /\ \A u \in Users, c \in ChatIds :
          /\ (\E x \in chats : x.id = c /\ x.userId # u)
                => /\ GetChat(chats, messages, u, c) = {NotFound}
                   /\ GetChat(chats, messages, u, c)
                        = GetChat(chats, messages, u, AbsentChatId)
          /\ \A res \in GetChat(chats, messages, u, c) :
                res.found => /\ res.chat.userId = u /\ res.chat.id = c
                             /\ \A i \in 1..Len(res.messages) :
                                   res.messages[i].chatId = c
    /\ (last.op = "get" /\ last.foreign) => last.result = NotFound
    /\ (last.op = "get" /\ last.result.found) => last.result.chat.userId = last.userId

C2_Witness ==
    /\ last.op = "get" /\ last.foreign /\ last.result = NotFound
    /\ \E x \in DOMAIN messages : x.chatId = last.chatId

\* C6: after a successful upsert the rows stored for the chat are exactly the
\* provided list, the i-th message at order i - 1 and nothing older left, and
\* getChat by the owner returns the messages in the provided order.
C6_UpsertReplacesMessages ==
    (last.op = "upsert" /\ last.err = "none")
        => /\ RowsOf(messages, last.chatId) = ExpectedRows(last.chatId, last.msgs)
           /\ \A res \in GetChat(chats, messages, last.userId, last.chatId) :
                 /\ res.found
                 /\ Len(res.messages) = Len(last.msgs)
                 /\ \A i \in 1..Len(last.msgs) :
                       /\ res.messages[i].order = i - 1
                       /\ res.messages[i].role = last.msgs[i].role
                       /\ res.messages[i].parts = last.msgs[i].parts

C6_Witness ==
    /\ last.op = "upsert" /\ last.err = "none" /\ last.prior
    /\ Len(last.msgs) = 2 /\ last.msgs[1] # last.msgs[2]

\* C7: an upsert that repeats the successful upsert made just before it, with
\* the same user, chat id, title and messages, succeeds and leaves the chat rows
\* and the message rows exactly as the first call left them.
C7_UpsertIdempotent ==
    [][(last'.op = "upsert" /\ last'.again)
        => (last'.err = "none" /\ chats' = chats /\ messages' = messages)]_vars

C7_Witness ==
    /\ last.op = "upsert" /\ last.again /\ last.err = "none" /\ Len(last.msgs) = 2

(***************************************************************************)
(* The tool adapters of the POST handler.                                  *)
(***************************************************************************)
\* maxSteps: 10
maxSteps == 10

\* what the search provider answers: results.organic
Organic ==
    <<[title |-> "t1", link |-> "l1", snippet |-> "s1", date |-> "d1", position |-> 1],
      [title |-> "t2", link |-> "l2", snippet |-> "s2", date |-> "d2", position |-> 2]>>

\* searchWeb.execute: await searchSerper(...) and map the organic results; a
\* failure of searchSerper is not caught and leaves execute as an exception
SearchWebExecute(serper) ==
    IF serper # "ok"
    THEN [status |-> "thrown"]
    ELSE [status |-> "returned",
          value |-> [i \in 1..Len(Organic) |->
                       [title |-> Organic[i].title, link |-> Organic[i].link,
                        snippet |-> Organic[i].snippet, date |-> Organic[i].date]]]

Urls == <<"url1", "url2", "url3", "url4">>

\* bulkCrawlWebsites({ urls }): every URL is crawled, each outcome is kept, and
\* the call reports success only if every crawl succeeded
BulkCrawlWebsites(urls, outcome) ==
    LET results == [i \in 1..Len(urls) |->
                      [url |-> urls[i],
                       result |-> IF outcome[urls[i]] = "ok"
                                  THEN [success |-> TRUE, data |-> "markdown"]
                                  ELSE [success |-> FALSE, error |-> outcome[urls[i]]]]]
    IN  IF \A i \in 1..Len(urls) : outcome[urls[i]] = "ok"
        THEN [success |-> TRUE, results |-> results]
        ELSE [success |-> FALSE, error |-> "crawl failed", results |-> results]

\* mutant of ScrapePagesExecute: when a crawl failed, only the failures are kept
ScrapePagesExecute_FailuresOnly(crawl) ==
    IF ~crawl.success
    THEN LET failures == SelectSeq(crawl.results, LAMBDA x : ~x.result.success)
         IN  [status |-> "returned",
              value |-> [error |-> crawl.error,
                         results |-> [i \in 1..Len(failures) |->
                            [url |-> failures[i].url,
                             success |-> FALSE,
                             data |-> failures[i].result.error]]]]
    ELSE [status |-> "returned",
          value |-> [results |-> [i \in 1..Len(crawl.results) |->
                        [url |-> crawl.results[i].url,
                         success |-> crawl.results[i].result.success,
                         data |-> crawl.results[i].result.data]]]]

\* scrapePages.execute: the tool result built from what bulkCrawlWebsites returned
ScrapePagesExecute(crawl) ==
    IF ~crawl.success
    THEN [status |-> "returned",
          value |-> [error |-> crawl.error,
                     results |-> [i \in 1..Len(crawl.results) |->
                        [url |-> crawl.results[i].url,
                         success |-> crawl.results[i].result.success,
                         data |-> IF crawl.results[i].result.success
                                  THEN crawl.results[i].result.data
                                  ELSE crawl.results[i].result.error]]]]
    ELSE [status |-> "returned",
          value |-> [results |-> [i \in 1..Len(crawl.results) |->
                        [url |-> crawl.results[i].url,
                         success |-> crawl.results[i].result.success,
                         data |-> crawl.results[i].result.data]]]]

\* The abortSignal streamText hands to execute is the abortSignal option it was
\* called with: POST calls streamText without one, and the request's own signal
\* is read nowhere.
ToolAbortSignal == "none"

\* The call of tool t stops because the request r was aborted: searchWeb hands
\* its abortSignal on to searchSerper, scrapePages hands its to nothing.
ObservesAbort(r, t) ==
    r.aborted /\ ToolAbortSignal = "request" /\ t = "searchWeb"

\* what the request keeps of a tool call: whether execute returned or threw, and
\* whether the value it returned carries an error field
Outcome(r, errorField) == [status |-> r.status, error |-> errorField]

(***************************************************************************)
(* The POST handlers: api/chat/route.ts of the day-1 app ("day1") and the  *)
(* later route with isNewChat ("day3").                                    *)
(***************************************************************************)
\* a frame written to the response stream: frames keeps the kinds of frame in
\* the order each was first written
Emit(r, kind) ==
    IF \E i \in 1..Len(r.frames) : r.frames[i] = kind
    THEN r.frames ELSE Append(r.frames, kind)

\* the response to a request that ends before any stream is opened
Respond(r, code) == [r EXCEPT !.pc = "done", !.http = code]

\* const title (day1): messages[messages.length - 1]?.content?.slice(0, 100) || "New Chat"
TitleSliceDay1 == 100

NewChatTitle == <<"N", "e", "w", " ", "C", "h", "a", "t">>

ChatTitle(msgs) ==
    IF Len(msgs) = 0 THEN NewChatTitle
    ELSE IF Slice(msgs[Len(msgs)].content, TitleSliceDay1) = <<>> THEN NewChatTitle
    ELSE Slice(msgs[Len(msgs)].content, TitleSliceDay1)

TitleFor(app, msgs) == IF app = "day1" THEN ChatTitle(msgs) ELSE TitleOf(msgs)

\* response.messages: what the model produced in this turn
ResponseMessages == <<AssistantText>>

\* mutant of AppendResponseMessages: the response comes before the request's messages
AppendResponseMessages_ResponseFirst(msgs, responseMessages) == responseMessages \o msgs

\* appendResponseMessages({ messages, responseMessages })
AppendResponseMessages(msgs, responseMessages) == msgs \o responseMessages

\* A request arrives. day3 carries chatId and isNewChat; day1 carries an optional
\* chatId and makes a new chat under a fresh id (crypto.randomUUID()) without one.
Receive(app, s, msgs, c, isNew) ==
    /\ req.pc = "idle"
    /\ req' = [IdleReq EXCEPT
                 !.pc = "auth", !.app = app, !.session = s, !.msgs = msgs,
                 !.chatId = c, !.isNewChat = isNew,
                 !.foreign = /\ s # Anonymous
                             /\ \E x \in chats : x.id = c /\ x.userId # s,
                 !.owned = \E x \in chats : x.id = c /\ x.userId = s]
    /\ UNCHANGED <<chats, messages, last, procs>>

\* the requests a client may send for the chat id c
ReceiveFor(c) ==
    \E s \in Users \cup {Anonymous}, msgs \in SeqsUpTo(ClientMessages, MaxReqMsgs),
       isNew \in BOOLEAN :
        Receive("day3", s, msgs, c, isNew)

ReceiveDay3 == \E c \in ChatIds : ReceiveFor(c)

ReceiveDay1 ==
    \E s \in Users \cup {Anonymous}, msgs \in SeqsUpTo(ClientMessages, MaxReqMsgs) :
        \/ \E c \in ChatIds : Receive("day1", s, msgs, c, FALSE)
        \/ \E c \in ChatIds :
              /\ \A x \in chats : x.id # c
              /\ Receive("day1", s, msgs, c, TRUE)

\* const session = await auth(); if (!session) return 401
Authenticate ==
    /\ req.pc = "auth"
    /\ req' = IF req.session = Anonymous THEN Respond(req, 401)
              ELSE [req EXCEPT !.pc = IF req.app = "day3" THEN "validate" ELSE "chat"]
    /\ UNCHANGED <<chats, messages, last, procs>>

\* if (!messages.length) return 400 (day3 only)
Validate ==
    /\ req.pc = "validate"
    /\ req' = IF Len(req.msgs) = 0 THEN Respond(req, 400)
              ELSE [req EXCEPT !.pc = "chat"]
    /\ UNCHANGED <<chats, messages, last, procs>>

\* mutant of CreateChat: the stream is opened whether the upsert succeeded or not
CreateChat_OpensAnyway(dbUp) ==
    /\ req.pc = "chat"
    /\ req.isNewChat
    /\ \E r \in {UpsertChat(chats, messages, req.session, req.chatId,
                           TitleFor(req.app, req.msgs), req.msgs)} :
           IF dbUp /\ r.err = "none"
           THEN /\ chats' = r.chats
                /\ messages' = r.messages
                /\ req' = [req EXCEPT !.pc = "execute", !.wrote = @ + 1]
           ELSE /\ UNCHANGED <<chats, messages>>
                /\ req' = [req EXCEPT !.pc = "execute", !.wrote = @ + 1]
    /\ UNCHANGED <<last, procs>>

\* if (isNewChat) await upsertChat(...): an exception of upsertChat leaves the
\* handler, and the framework answers 500. dbUp: whether the database takes the write.
CreateChat(dbUp) ==
    /\ req.pc = "chat"
    /\ req.isNewChat
    /\ \E r \in {UpsertChat(chats, messages, req.session, req.chatId,
                           TitleFor(req.app, req.msgs), req.msgs)} :
           IF dbUp /\ r.err = "none"
           THEN /\ chats' = r.chats
                /\ messages' = r.messages
                /\ req' = [req EXCEPT !.pc = "execute", !.wrote = @ + 1]
           ELSE /\ UNCHANGED <<chats, messages>>
                /\ req' = [Respond(req, 500) EXCEPT !.wrote = @ + 1]
    /\ UNCHANGED <<last, procs>>

\* mutant of VerifyChat: only the chat's existence is checked
VerifyChat_ExistenceOnly ==
    /\ req.pc = "chat"
    /\ ~req.isNewChat
    /\ req' = IF FindChatById(chats, req.chatId) = {}
              THEN Respond(req, 404)
              ELSE [req EXCEPT !.pc = "execute"]
    /\ UNCHANGED <<chats, messages, last, procs>>

\* else: findFirst by id; if (!chat || chat.userId !== session.user.id) return 404
VerifyChat ==
    /\ req.pc = "chat"
    /\ ~req.isNewChat
    /\ LET found == FindChatById(chats, req.chatId)
       IN  req' = IF found = {} \/ (\E x \in found : x.userId # req.session)
                  THEN Respond(req, 404)
                  ELSE [req EXCEPT !.pc = "execute"]
    /\ UNCHANGED <<chats, messages, last, procs>>

\* mutant of NewChatFrames: the frame is written for every request
NewChatFrames_Always(r) ==
    [r EXCEPT !.frames = Emit(r, "NEW_CHAT_CREATED"), !.nNewChat = @ + 1]

\* execute: if (isNewChat) dataStream.writeData({ type: "NEW_CHAT_CREATED", ... })
NewChatFrames(r) ==
    IF r.isNewChat
    THEN [r EXCEPT !.frames = Emit(r, "NEW_CHAT_CREATED"), !.nNewChat = @ + 1]
    ELSE r

\* createDataStreamResponse: the stream is opened and execute runs up to streamText
Execute ==
    /\ req.pc = "execute"
    /\ req' = [NewChatFrames(req) EXCEPT !.pc = "model", !.http = 200,
                                         !.state = "Streaming"]
    /\ UNCHANGED <<chats, messages, last, procs>>

\* the tools of each route
ToolsOf(app) == IF app = "day1" THEN {"searchWeb"} ELSE ToolNames

\* streamText invokes the model for one more step only below maxSteps
MayInvokeModel(steps) == steps < maxSteps

\* One step of streamText: the model answers with final text, or asks for tools.
ModelStep ==
    /\ req.pc = "model"
    /\ MayInvokeModel(req.steps)
    /\ \/ req' = [req EXCEPT !.steps = @ + 1, !.calls = {}, !.pending = {},
                             !.results = NoResults, !.failed = {},
                             !.frames = Emit(req, "text"),
                             !.pc = "onFinish", !.finishReason = "stop"]
       \/ \E T \in (SUBSET ToolsOf(req.app)) \ {{}} :
             req' = [req EXCEPT !.steps = @ + 1, !.calls = T, !.pending = T,
                                !.results = NoResults, !.failed = {},
                                !.frames = Emit(req, "tool-call"),
                                !.pc = "tools"]
    /\ UNCHANGED <<chats, messages, last, procs>>

\* what streamText does with the outcome of a tool's execute: a returned value is
\* the tool result; an exception becomes an error part of the stream, which
\* onError turns into the error frame, and the call is left without a result
ToolDone(r, t, out, errorField, adapterFailed) ==
    LET r1 == [r EXCEPT !.pending = @ \ {t},
                        !.results = [@ EXCEPT ![t] = Outcome(out, errorField)],
                        !.failed = IF adapterFailed THEN @ \cup {t} ELSE @]
    IN  IF out.status = "returned"
        THEN [r1 EXCEPT !.frames = Emit(r1, "tool-result")]
        ELSE [r1 EXCEPT !.frames = Emit(r1, "error"), !.nError = @ + 1,
                        !.logged = TRUE]

ExecuteSearchWeb ==
    /\ req.pc = "tools"
    /\ "searchWeb" \in req.pending
    /\ \E serper \in (IF ObservesAbort(req, "searchWeb") THEN {"aborted"}
                       ELSE {"ok", "error"}) :
          \* the value searchWeb returns is an array: it has no error field
          req' = ToolDone(req, "searchWeb", SearchWebExecute(serper), FALSE,
                          serper # "ok")
    /\ UNCHANGED <<chats, messages, last, procs>>

ExecuteScrapePages ==
    /\ req.pc = "tools"
    /\ "scrapePages" \in req.pending
    /\ \E n \in 1..MaxUrls :
          \E outcome \in [{Urls[i] : i \in 1..n} -> {"ok", "failed"}] :
             LET crawl == BulkCrawlWebsites(SubSeq(Urls, 1, n), outcome)
                 out == ScrapePagesExecute(crawl)
             IN  req' = ToolDone(req, "scrapePages", out,
                                 "error" \in DOMAIN out.value, ~crawl.success)
    /\ UNCHANGED <<chats, messages, last, procs>>

\* the tool calls of the step that have a result
Delivered(r) == {t \in ToolNames : r.results[t].status = "returned"}

\* streamText goes on to another step when the step made tool calls and every
\* call has its result
NextStepWanted(r) == r.calls # {} /\ Delivered(r) = r.calls

\* what is kept of a step once it is over
StepOver(r) == [r EXCEPT !.calls = {}, !.results = NoResults, !.failed = {}]

\* The step's tool calls are all settled: another step, or the end of the loop.
StepFinish ==
    /\ req.pc = "tools"
    /\ req.pending = {}
    /\ req' = IF NextStepWanted(req) /\ MayInvokeModel(req.steps)
              THEN [StepOver(req) EXCEPT !.pc = "model"]
              ELSE [StepOver(req) EXCEPT
                       !.pc = "onFinish",
                       !.finishReason = IF NextStepWanted(req)
                                        THEN "tool-calls" ELSE "error"]
    /\ UNCHANGED <<chats, messages, last, procs>>

\* the end of a request whose stream was opened
Finished(r) ==
    [r EXCEPT !.pc = "done",
              !.state = IF r.aborted THEN "Aborted"
                        ELSE IF r.nError > 0 THEN "Errored" ELSE "Completed"]

\* onFinish of day3: await upsertChat(...) with nothing catching its failure: the
\* rejection fails the stream and onError writes the error frame
OnFinishDay3(r, saved) ==
    IF saved
    THEN Finished([r EXCEPT !.frames = Emit(r, "finish"), !.wrote = @ + 1])
    ELSE Finished([r EXCEPT !.frames = Emit(r, "error"), !.nError = @ + 1,
                            !.logged = TRUE, !.wrote = @ + 1, !.saveFailed = TRUE])

\* onFinish of day1: upsertChat(...).catch(console.error): the failure is logged
OnFinishDay1(r, saved) ==
    IF saved
    THEN Finished([r EXCEPT !.frames = Emit(r, "finish"), !.wrote = @ + 1])
    ELSE Finished([r EXCEPT !.frames = Emit(r, "finish"), !.logged = TRUE,
                            !.wrote = @ + 1, !.saveFailed = TRUE])

\* onFinish: the request's messages and the response's are saved under the
\* request's chat id. dbUp: whether the database takes the write.
OnFinish(dbUp) ==
    /\ req.pc = "onFinish"
    /\ \E r \in {UpsertChat(chats, messages, req.session, req.chatId,
                           TitleFor(req.app, req.msgs),
                           AppendResponseMessages(req.msgs, ResponseMessages))} :
       LET saved == dbUp /\ r.err = "none"
       IN  /\ chats' = IF saved THEN r.chats ELSE chats
           /\ messages' = IF saved THEN r.messages ELSE messages
           /\ req' = IF req.app = "day1" THEN OnFinishDay1(req, saved)
                     ELSE OnFinishDay3(req, saved)
    /\ UNCHANGED <<last, procs>>

\* The response has ended: the handler is free for the next request.
Close ==
    /\ req.pc = "done"
    /\ req' = IdleReq
    /\ UNCHANGED <<chats, messages, last, procs>>

Init ==
    /\ chats = {}
    /\ messages = EmptyBag
    /\ last = NoCall
    /\ req = IdleReq
    /\ procs = IdleProcs

\* the route with isNewChat
Next ==
    \/ ReceiveDay3
    \/ Authenticate
    \/ Validate
    \/ \E dbUp \in BOOLEAN : CreateChat(dbUp)
    \/ VerifyChat
    \/ Execute
    \/ ModelStep
    \/ ExecuteSearchWeb
    \/ ExecuteScrapePages
    \/ StepFinish
    \/ \E dbUp \in BOOLEAN : OnFinish(dbUp)
    \/ Close

Spec == Init /\ [][Next]_vars

\* every step the handler takes once a request has arrived
Serve ==
    \/ Authenticate
    \/ Validate
    \/ \E dbUp \in BOOLEAN : CreateChat(dbUp)
    \/ VerifyChat
    \/ Execute
    \/ ModelStep
    \/ ExecuteSearchWeb
    \/ ExecuteScrapePages
    \/ StepFinish
    \/ \E dbUp \in BOOLEAN : OnFinish(dbUp)

\* The requests for one chat id, one after the other. The handler's loop reads
\* and writes no row of another chat, and the runs of one chat id hold every
\* path through the handler.
NextLive ==
    \/ ReceiveFor("c1")
    \/ Serve
    \/ Close

\* the event loop resumes the handler whenever the call it awaits has settled
SpecLive == Init /\ [][NextLive]_vars /\ WF_vars(Serve)

(***************************************************************************)
(* Claims about the POST handler, checked under Spec and SpecLive.         *)
(***************************************************************************)
InFrames(r, kind) == \E i \in 1..Len(r.frames) : r.frames[i] = kind

\* C3: a request with messages whose chat id exists under another user than the
\* requester is answered 404, whatever isNewChat says, and while it is served no
\* chat row and no message row is created, changed or deleted.
C3_ForeignChatGets404 ==
    [][(req'.foreign /\ Len(req'.msgs) > 0)
        => /\ chats' = chats /\ messages' = messages
           /\ (req'.pc = "done" => req'.http = 404)]_vars

\* The loop and its ceiling: the model is never invoked for more than maxSteps
\* steps; a loop whose every step asked for tools stops at the ceiling, without
\* an error frame, and hands its output to onFinish; and a request in the loop
\* always comes to its end.
LoopStopsAtCeiling ==
    /\ [](/\ req.steps <= maxSteps
          /\ (req.pc = "tools" => req.steps >= 1)
          /\ (req.pc = "onFinish" /\ req.finishReason = "tool-calls")
                => /\ req.steps = maxSteps
                   /\ req.nError = 0
                   /\ req.state = "Streaming")
    /\ [][(/\ req.pc = "tools" /\ req.pending = {} /\ NextStepWanted(req)
           /\ req.steps >= maxSteps)
            => /\ req'.pc = "onFinish" /\ req'.finishReason = "tool-calls"
               /\ req'.nError = req.nError /\ req'.frames = req.frames]_vars
    /\ (req.pc = "model") ~> (req.pc = "done")

\* C4: the loop ends within maxSteps steps even if the model asks for tools at
\* every step, it never hangs, and a request whose loop was cut at the ceiling
\* finishes normally: Completed, not Errored, with no error frame.
C4_LoopEndsWithinCeiling ==
    /\ LoopStopsAtCeiling
    /\ []((/\ req.pc = "done" /\ req.steps = maxSteps
           /\ req.finishReason = "tool-calls")
            => (req.state = "Completed" /\ req.nError = 0))

\* C5: a request writes the NEW_CHAT_CREATED frame at most once, only if it
\* declared isNewChat, and as the first frame of its stream, before any frame of
\* the model's text or of a tool.
C5_NewChatEventOnceAndFirst ==
    /\ req.nNewChat <= 1
    /\ InFrames(req, "NEW_CHAT_CREATED") <=> req.nNewChat >= 1
    /\ req.nNewChat >= 1 => /\ req.isNewChat
                            /\ req.frames[1] = "NEW_CHAT_CREATED"
    /\ (req.isNewChat /\ Len(req.frames) > 0) => req.frames[1] = "NEW_CHAT_CREATED"

C5_Witness ==
    /\ req.nNewChat = 1 /\ req.isNewChat /\ req.pc = "done"
    /\ InFrames(req, "tool-result") /\ InFrames(req, "finish")

\* C8: when a tool adapter fails in a step (the search call of searchWeb, a
\* crawl of scrapePages), the tool call still gets a result, a payload with an
\* error field, no error frame is written, and the loop goes on to the next
\* model step.
C8_ToolFailureStaysInLoop ==
    [][/\ (req'.pc = "tools" /\ req'.failed # {})
            => /\ \A t \in req'.failed : /\ req'.results[t].status = "returned"
                                         /\ req'.results[t].error
               /\ req'.nError = 0
       /\ (/\ req.pc = "tools" /\ req.pending = {} /\ req.failed # {}
           /\ MayInvokeModel(req.steps))
            => req'.pc = "model"]_vars

\* C9: when the store write of onFinish fails, the failure is logged and nothing
\* else: the stream ends with its finish frame, no error frame is added, and
\* the request that had no error before is Completed.
C9_SaveFailureOnlyLogged ==
    [][(req'.saveFailed /\ ~req.saveFailed)
        => /\ req'.logged
           /\ req'.nError = req.nError
           /\ InFrames(req', "finish")
           /\ (req.nError = 0 => req'.state = "Completed")]_vars

\* the status the handler's checks give a request before any stream: 0 for none
Rejection(r) ==
    IF r.session = Anonymous THEN 401
    ELSE IF Len(r.msgs) = 0 THEN 400
    ELSE IF ~r.isNewChat /\ ~r.owned THEN 404
    ELSE 0

\* C10: an unauthenticated request is answered 401, an authenticated one with
\* no messages 400, an authenticated one for a chat that is not new and is
\* missing or not the requester's 404; such a request never calls a store
\* write, never opens the stream and never reaches the model or a tool.
C10_RejectedBeforeStreaming ==
    (req.pc # "idle" /\ Rejection(req) # 0)
        => /\ req.pc \in {"auth", "validate", "chat", "done"}
           /\ req.http \in {0, Rejection(req)}
           /\ (req.pc = "done" => req.http = Rejection(req))
           /\ req.wrote = 0
           /\ req.state = "Idle"
           /\ req.frames = <<>>
           /\ req.steps = 0 /\ req.calls = {}

C10_Witness ==
    /\ req.pc = "done" /\ req.http = 404 /\ req.foreign /\ ~req.isNewChat
    /\ \E x \in DOMAIN messages : x.chatId = req.chatId

\* the route of the day-1 app
NextDay1 ==
    \/ ReceiveDay1
    \/ Authenticate
    \/ \E dbUp \in BOOLEAN : CreateChat(dbUp)
    \/ VerifyChat
    \/ Execute
    \/ ModelStep
    \/ ExecuteSearchWeb
    \/ StepFinish
    \/ \E dbUp \in BOOLEAN : OnFinish(dbUp)
    \/ Close

SpecDay1 == Init /\ [][NextDay1]_vars

(***************************************************************************)
(* upsertChat one database operation at a time: every await of the         *)
(* function is a point where another call may run.                         *)
(***************************************************************************)
\* most messages in a list handed to a call that runs step by step
MaxTurns == 2

\* a conversation whose prefixes are the lists the callers save
Conversation == <<UserShort, AssistantText, UserShort, AssistantText>>

Turns == {SubSeq(Conversation, 1, k) : k \in 0..MaxTurns}

\* the chat the concurrent callers work on
SharedChat == "c1"

\* the call has not ended: its next database operation is still to come
Running(q) ==
    q.pc \in {"find", "insertChat", "updateTitle", "delete", "insertMessages"}

\* upsertChat(opts) is called
UpsertCalled(p) ==
    /\ procs[p].pc = "idle"
    /\ \E u \in Users, t \in Titles, msgs \in Turns :
          procs' = [procs EXCEPT ![p] =
                      [pc |-> "find", userId |-> u, chatId |-> SharedChat,
                       title |-> t, msgs |-> msgs, err |-> "none"]]
    /\ UNCHANGED <<chats, messages, last, req>>

\* where the call goes once its messages are next: if (opts.messages.length > 0)
ToInsertMessages(q) ==
    [q EXCEPT !.pc = IF Len(q.msgs) > 0 THEN "insertMessages" ELSE "done"]

\* const chat = await findFirst(by id and userId); the branch is chosen from the
\* row that was read: if (!chat) / if (chat.userId !== opts.userId) throw /
\* if (chat.title !== opts.title)
UpsertFind(p) ==
    /\ procs[p].pc = "find"
    /\ LET q == procs[p]
           found == FindChatByIdAndUser(chats, q.chatId, q.userId)
       IN  procs' = [procs EXCEPT ![p] =
              IF found = {} THEN [q EXCEPT !.pc = "insertChat"]
              ELSE IF \E x \in found : x.userId # q.userId
              THEN [q EXCEPT !.pc = "failed", !.err = "OwnershipConflict"]
              ELSE IF \E x \in found : x.title # q.title
              THEN [q EXCEPT !.pc = "updateTitle"]
              ELSE [q EXCEPT !.pc = "delete"]]
    /\ UNCHANGED <<chats, messages, last, req>>

\* await db.insert(chats).values({ id, userId, title })
UpsertInsertChat(p) ==
    /\ procs[p].pc = "insertChat"
    /\ LET q == procs[p]
       IN  \E ins \in {InsertChat(chats, [id |-> q.chatId, userId |-> q.userId,
                                         title |-> q.title])} :
              /\ chats' = ins.chats
              /\ procs' = [procs EXCEPT ![p] =
                             IF ins.err # "none"
                             THEN [q EXCEPT !.pc = "failed", !.err = ins.err]
                             ELSE ToInsertMessages(q)]
    /\ UNCHANGED <<messages, last, req>>

\* await db.update(chats).set({ title }).where(eq(chats.id, chatId))
UpsertUpdateTitle(p) ==
    /\ procs[p].pc = "updateTitle"
    /\ chats' = UpdateTitle(chats, procs[p].chatId, procs[p].title)
    /\ procs' = [procs EXCEPT ![p].pc = "delete"]
    /\ UNCHANGED <<messages, last, req>>

\* mutant of UpsertDelete: the delete and the insert are one operation
UpsertDelete_WithInsert(p) ==
    /\ procs[p].pc = "delete"
    /\ messages' = InsertMessages(DeleteMessages(messages, procs[p].chatId),
                                  procs[p].chatId, procs[p].msgs)
    /\ procs' = [procs EXCEPT ![p].pc = "done"]
    /\ UNCHANGED <<chats, last, req>>

\* await db.delete(messages).where(eq(messages.chatId, chatId))
UpsertDelete(p) ==
    /\ procs[p].pc = "delete"
    /\ messages' = DeleteMessages(messages, procs[p].chatId)
    /\ procs' = [procs EXCEPT ![p] = ToInsertMessages(procs[p])]
    /\ UNCHANGED <<chats, last, req>>

\* await db.insert(messages).values(rows)
UpsertInsertMessages(p) ==
    /\ procs[p].pc = "insertMessages"
    /\ messages' = InsertMessages(messages, procs[p].chatId, procs[p].msgs)
    /\ procs' = [procs EXCEPT ![p].pc = "done"]
    /\ UNCHANGED <<chats, last, req>>

\* The call stops where it is: the server process dies, or the database refuses
\* the operation the call awaits. Nothing undoes the operations already made.
UpsertStops(p) ==
    /\ Running(procs[p])
    /\ procs' = [procs EXCEPT ![p] = [pc |-> "stopped", userId |-> procs[p].userId,
                                     chatId |-> procs[p].chatId,
                                     title |-> procs[p].title,
                                     msgs |-> procs[p].msgs,
                                     \* the operation the call did not make
                                     err |-> procs[p].pc]]
    /\ UNCHANGED <<chats, messages, last, req>>

\* the caller has its answer and may call again
UpsertReturns(p) ==
    /\ procs[p].pc \in {"done", "failed", "stopped"}
    /\ procs' = [procs EXCEPT ![p] = IdleProc]
    /\ UNCHANGED <<chats, messages, last, req>>

NextConc ==
    \E p \in Procs :
        \/ UpsertCalled(p)
        \/ UpsertFind(p)
        \/ UpsertInsertChat(p)
        \/ UpsertUpdateTitle(p)
        \/ UpsertDelete(p)
        \/ UpsertInsertMessages(p)
        \/ UpsertStops(p)
        \/ UpsertReturns(p)

SpecConc == Init /\ [][NextConc]_vars

(***************************************************************************)
(* A request that the client may abort, its save made one database         *)
(* operation at a time.                                                    *)
(***************************************************************************)
\* the caller that stands for the onFinish of the request
Saver == "p1"

\* if (isNewChat) await upsertChat(...) is called with the request's messages
CreateScheduled ==
    /\ req.pc = "chat"
    /\ req.isNewChat
    /\ procs[Saver].pc = "idle"
    /\ req' = [req EXCEPT !.pc = "creating"]
    /\ procs' = [procs EXCEPT ![Saver] =
                   [pc |-> "find", userId |-> req.session, chatId |-> req.chatId,
                    title |-> TitleFor(req.app, req.msgs), msgs |-> req.msgs,
                    err |-> "none"]]
    /\ UNCHANGED <<chats, messages, last>>

\* the upsertChat of a new chat has settled: the stream is opened, or the
\* exception leaves the handler and the framework answers 500
CreateSettled ==
    /\ req.pc = "creating"
    /\ procs[Saver].pc \in {"done", "failed"}
    /\ req' = IF procs[Saver].pc = "done"
              THEN [req EXCEPT !.pc = "execute", !.wrote = @ + 1]
              ELSE [Respond(req, 500) EXCEPT !.wrote = @ + 1]
    /\ procs' = [procs EXCEPT ![Saver] = IdleProc]
    /\ UNCHANGED <<chats, messages, last>>

\* onFinish calls upsertChat with the request's messages and the response's
SaveScheduled ==
    /\ req.pc = "onFinish"
    /\ procs[Saver].pc = "idle"
    /\ req' = [req EXCEPT !.pc = "saving"]
    /\ procs' = [procs EXCEPT ![Saver] =
                   [pc |-> "find", userId |-> req.session, chatId |-> req.chatId,
                    title |-> TitleFor(req.app, req.msgs),
                    msgs |-> AppendResponseMessages(req.msgs, ResponseMessages),
                    err |-> "none"]]
    /\ UNCHANGED <<chats, messages, last>>

\* the database operations of the request's upsertChat, each one awaited
SaveSteps ==
    \/ UpsertFind(Saver)
    \/ UpsertInsertChat(Saver)
    \/ UpsertUpdateTitle(Saver)
    \/ UpsertDelete(Saver)
    \/ UpsertInsertMessages(Saver)

\* the upsertChat of onFinish has settled and onFinish returns
SaveSettled ==
    /\ req.pc = "saving"
    /\ procs[Saver].pc \in {"done", "failed"}
    /\ req' = OnFinishDay3(req, procs[Saver].pc = "done")
    /\ procs' = [procs EXCEPT ![Saver] = IdleProc]
    /\ UNCHANGED <<chats, messages, last>>

\* mutant of Abort: the abort also ends the save where it is
Abort_EndsSave ==
    /\ req.pc \in {"model", "tools", "onFinish", "saving"}
    /\ ~req.aborted
    /\ req' = [req EXCEPT !.aborted = TRUE, !.abortedIn = req.pc,
                          !.state = "Aborted"]
    /\ procs' = [procs EXCEPT ![Saver] =
                   IF Running(@) THEN [@ EXCEPT !.pc = "failed"] ELSE @]
    /\ UNCHANGED <<chats, messages, last>>

\* The client disconnects or cancels while the response is streamed. The
\* handler reads request.signal nowhere: the abort ends the delivery of frames
\* and nothing else.
Abort ==
    /\ req.pc \in {"model", "tools", "onFinish", "saving"}
    /\ ~req.aborted
    /\ req' = [req EXCEPT !.aborted = TRUE, !.abortedIn = req.pc,
                          !.state = "Aborted"]
    /\ UNCHANGED <<chats, messages, last, procs>>

NextAbort ==
    \/ ReceiveFor(SharedChat)
    \/ Authenticate
    \/ Validate
    \/ CreateScheduled
    \/ CreateSettled
    \/ VerifyChat
    \/ Execute
    \/ ModelStep
    \/ ExecuteSearchWeb
    \/ ExecuteScrapePages
    \/ StepFinish
    \/ SaveScheduled
    \/ SaveSteps
    \/ SaveSettled
    \/ Abort
    \/ Close

\* the database answers every operation it is asked for
SpecAbort == Init /\ [][NextAbort]_vars /\ WF_vars(SaveSteps)

(***************************************************************************)
(* Direct calls of the scrapePages tool.                                   *)
(***************************************************************************)
\* how the crawl of one URL may end
CrawlOutcomes == {"ok", "failed", "timeout"}

\* the lists of up to n different URLs
UrlLists(n) ==
    UNION {{u \in [1..k -> {Urls[i] : i \in 1..Len(Urls)}] :
               \A i, j \in 1..k : i # j => u[i] # u[j]} : k \in 1..n}

\* scrapePages.execute({ urls }) is called and every crawl ends as outcome says
CallScrape(urls, outcome) ==
    /\ last' = [op |-> "scrape", urls |-> urls, outcome |-> outcome,
                result |-> ScrapePagesExecute(BulkCrawlWebsites(urls, outcome))]
    /\ UNCHANGED <<chats, messages, req, procs>>

NextTools ==
    \E urls \in UrlLists(MaxUrls) :
        \E outcome \in [{urls[i] : i \in 1..Len(urls)} -> CrawlOutcomes] :
            CallScrape(urls, outcome)

SpecTools == Init /\ [][NextTools]_vars

(***************************************************************************)
(* Direct calls of getChats on tables whose chat rows carry updatedAt.     *)
(***************************************************************************)
MaxStamp == 3

\* the values of chats.updatedAt
Stamps == 1..MaxStamp

\* the ids of the chats in the listed tables
ListedIds == {"c1", "c2", "c3"}

\* the chats tables: at most one row per id
ChatTables ==
    {{[id |-> c, userId |-> f[c].userId, title |-> "New Chat",
       updatedAt |-> f[c].updatedAt] : c \in DOMAIN f} :
        f \in UNION {[ids -> [userId : Users, updatedAt : Stamps]] :
                        ids \in SUBSET ListedIds}}

\* the orders in which the database may return rows sorted by desc(updatedAt):
\* rows with the same updatedAt come in any order
OrderedByUpdatedAtDesc(rows) ==
    {s \in [1..Cardinality(rows) -> rows] :
        /\ \A i, j \in DOMAIN s : i # j => s[i] # s[j]
        /\ \A i, j \in DOMAIN s : i < j => s[i].updatedAt >= s[j].updatedAt}

\* mutant of GetChats: the rows of every user are returned
GetChats_AnyUser(cs, u) ==
    OrderedByUpdatedAtDesc(cs)

\* getChats({ userId }): findMany where userId matches, newest updatedAt first
GetChats(cs, u) ==
    OrderedByUpdatedAtDesc({r \in cs : r.userId = u})

CallList(u) ==
    /\ \E s \in GetChats(chats, u) :
          last' = [op |-> "list", userId |-> u, result |-> s]
    /\ UNCHANGED <<chats, messages, req, procs>>

InitList ==
    /\ chats \in ChatTables
    /\ messages = EmptyBag
    /\ last = NoCall
    /\ req = IdleReq
    /\ procs = IdleProcs

NextList == \E u \in Users : CallList(u)

SpecList == InitList /\ [][NextList]_vars

(***************************************************************************)
(* Claims about ownership and about calls that overlap.                    *)
(***************************************************************************)
\* the users in whose name the step from the current state to the next is taken:
\* the caller of the upsertChat that moved, the session of the request that
\* moved, the caller of the direct call that was made
StepActors ==
    {procs[p].userId : p \in {q \in Procs : procs[q].pc # "idle" /\ procs'[q] # procs[q]}}
        \cup (IF req' # req /\ req.pc # "idle" THEN {req.session} ELSE {})
        \cup (IF last' # last /\ last'.op = "upsert" THEN {last'.userId} ELSE {})

\* C11: no step removes a chat row or changes its userId, no chat id ever has
\* two rows, and a step that changes the title or the messages of an existing
\* chat is a step taken for the chat's owner.
C11_OwnershipInvariant ==
    [][(chats' # chats \/ messages' # messages)
        => /\ \A x \in chats : \E y \in chats' : y.id = x.id /\ y.userId = x.userId
           /\ \A x, y \in chats' : x.id = y.id => x = y
           /\ \A x \in chats :
                 (x \notin chats' \/ RowsOf(messages', x.id) # RowsOf(messages, x.id))
                    => StepActors = {x.userId}]_vars

\* another user's request for an existing chat with stored messages has been
\* served as a new chat, and the chat is still its owner's
C11_Witness ==
    /\ req.pc = "done" /\ req.foreign /\ req.isNewChat /\ req.wrote = 1
    /\ \E x \in chats : /\ x.id = req.chatId /\ x.userId # req.session
                        /\ x.title # TitleFor(req.app, req.msgs)
                        /\ BagCardinality(RowsOf(messages, x.id)) = Len(req.msgs) + 1

\* the save of the request is under way: onFinish has called upsertChat and the
\* call has not ended
SaveRunning == req.pc = "saving" /\ Running(procs[Saver])

\* C12: an abort changes nothing of a save that is under way, and the save of
\* an aborted request goes on to its end: the chat then holds exactly the
\* request's messages followed by the response's.
C12_AbortedSaveCompletes ==
    /\ [][(req'.aborted /\ ~req.aborted)
            => (procs' = procs /\ chats' = chats /\ messages' = messages)]_vars
    /\ [](req.pc = "saving" /\ procs[Saver].pc = "done"
            => RowsOf(messages, req.chatId)
                 = ExpectedRows(req.chatId,
                                AppendResponseMessages(req.msgs, ResponseMessages)))
    /\ (req.aborted /\ SaveRunning)
          ~> (/\ req.aborted /\ req.pc = "saving" /\ procs[Saver].pc = "done"
              /\ RowsOf(messages, req.chatId)
                   = ExpectedRows(req.chatId,
                                  AppendResponseMessages(req.msgs, ResponseMessages)))

\* the request was aborted while its save was under way, and the save has ended
C12_Witness ==
    /\ req.aborted /\ req.abortedIn = "saving" /\ req.pc = "done"
    /\ req.state = "Aborted" /\ ~req.saveFailed
    /\ BagCardinality(RowsOf(messages, req.chatId)) = Len(req.msgs) + 1

\* C13: once the request is aborted, a tool call that is in flight observes the
\* cancellation and stops: it delivers no result.
C13_AbortReachesToolCalls ==
    [][(req.aborted /\ req.pc = "tools")
        => \A t \in req.pending : req'.results[t].status # "returned"]_vars

(***************************************************************************)
(* Further claims about the POST handler, checked under Spec.              *)
(***************************************************************************)
\* C15: a request that ends Errored has had exactly one error frame, and once
\* an error frame is written no tool result and no further model step follows
\* it.
C15_SingleErrorFrame ==
    [][/\ (req'.state = "Errored") => req'.nError = 1
       /\ (req.nError >= 1)
            => /\ req'.steps <= req.steps
               /\ \A t \in ToolNames :
                     req'.results[t].status = "returned"
                        => req.results[t].status = "returned"]_vars

(***************************************************************************)
(* Further claims about the store operations, checked under SpecStore.     *)
(***************************************************************************)
\* C14 as stated: an upsert on a chat id that another user owns has the outcome
\* of the same upsert on a chat id that does not exist, which succeeds.
C14_UpsertHidesForeignChats ==
    /\ \A u \in Users, c \in ChatIds :
          (\E x \in chats : x.id = c /\ x.userId # u)
             => \A t \in Titles, msgs \in SeqsUpTo(StoredMessages, 1) :
                   UpsertChat(chats, messages, u, c, t, msgs).err
                     = UpsertChat(chats, messages, u, AbsentChatId, t, msgs).err
    /\ (last.op = "upsert" /\ last.foreign) => last.err = "none"

\* C14 amended: an upsert on a chat id that another user owns fails with an
\* error and leaves every row as it was, while an upsert on a chat id that no
\* row carries succeeds and creates the chat for the caller; the outcome tells
\* the two cases apart.
C14_UpsertOnForeignChatFails ==
    [][(last' # last /\ last'.op = "upsert")
        => /\ last'.foreign
                => /\ last'.err # "none"
                   /\ chats' = chats /\ messages' = messages
           /\ (\A x \in chats : x.id # last'.chatId)
                => /\ last'.err = "none"
                   /\ \E y \in chats' : y.id = last'.chatId /\ y.userId = last'.userId
                   /\ RowsOf(messages', last'.chatId)
                        = ExpectedRows(last'.chatId, last'.msgs)]_vars

\* an upsert on another user's chat, which holds messages, has failed
C14_Witness ==
    /\ last.op = "upsert" /\ last.foreign /\ last.err # "none"
    /\ \E x \in DOMAIN messages : x.chatId = last.chatId

(***************************************************************************)
(* Claims about the scrapePages tool, checked under SpecTools.             *)
(***************************************************************************)
\* the URLs of the call whose crawl succeeded
Succeeded(call) == {i \in 1..Len(call.urls) : call.outcome[call.urls[i]] = "ok"}

\* C16: the result of a scrape of N URLs holds exactly N outcomes, the i-th for
\* the i-th URL with its own success flag and its data or its error, successes
\* kept when other crawls failed; and the result has an error field if and only
\* if fewer than N crawls succeeded.
C16_ScrapeKeepsEveryOutcome ==
    (last.op = "scrape")
        => LET n == Len(last.urls)
               res == last.result.value
           IN  /\ last.result.status = "returned"
               /\ Len(res.results) = n
               /\ \A i \in 1..n :
                     /\ res.results[i].url = last.urls[i]
                     /\ res.results[i].success = (i \in Succeeded(last))
                     /\ res.results[i].data
                          = IF i \in Succeeded(last) THEN "markdown"
                            ELSE last.outcome[last.urls[i]]
               /\ ("error" \in DOMAIN res) <=> (Cardinality(Succeeded(last)) < n)

\* a scrape of two URLs of which one succeeded and one timed out
C16_Witness ==
    /\ last.op = "scrape" /\ Len(last.urls) = 2
    /\ last.outcome[last.urls[1]] = "ok" /\ last.outcome[last.urls[2]] = "timeout"
    /\ "error" \in DOMAIN last.result.value
    /\ last.result.value.results[1].success

(***************************************************************************)
(* Claims about getChats, checked under SpecList.                          *)
(***************************************************************************)
\* C17: the list returned to a user holds every chat of that user once and no
\* chat of another user, and a chat never comes before one that was updated
\* later.
C17_ListOwnChatsNewestFirst ==
    (last.op = "list")
        => /\ {last.result[i] : i \in DOMAIN last.result}
                = {r \in chats : r.userId = last.userId}
           /\ Len(last.result) = Cardinality({r \in chats : r.userId = last.userId})
           /\ \A i, j \in DOMAIN last.result :
                 (last.result[i].updatedAt > last.result[j].updatedAt) => i < j

\* a list of two chats updated at different times, while another user's chat
\* is the newest of the table
C17_Witness ==
    /\ last.op = "list"
    /\ Len(last.result) = 2
    /\ last.result[1].updatedAt > last.result[2].updatedAt
    /\ \E r \in chats : r.userId # last.userId /\ r.updatedAt > last.result[1].updatedAt

(***************************************************************************)
(* Claims about the operations of one upsertChat call, checked under       *)
(* SpecConc.                                                               *)
(***************************************************************************)
\* the caller p has made the delete of its call in this step
Deleted(p) ==
    procs[p].pc = "delete" /\ procs'[p].pc \in {"insertMessages", "done"}

\* the call of p stops in this step with its messages still to insert
StoppedAfterDelete(p) ==
    procs[p].pc = "insertMessages" /\ procs'[p].pc = "stopped"

\* C18: the delete of an upsert is a step of its own: after it the chat exists
\* under its owner with no message row, and a get by the owner returns the chat
\* with an empty message list; a call that stops after its delete changes no
\* table, and a chat without messages gets messages again only by the insert
\* of some call.
C18_DeleteThenInsertNotAtomic ==
    [][\A p \in Procs :
          /\ Deleted(p)
               => /\ FindChatByIdAndUser(chats', procs[p].chatId, procs[p].userId) # {}
                  /\ RowsOf(messages', procs[p].chatId) = EmptyBag
                  /\ \A g \in GetChat(chats', messages', procs[p].userId, procs[p].chatId) :
                        g.found /\ g.messages = <<>>
          /\ StoppedAfterDelete(p) => (chats' = chats /\ messages' = messages)
          /\ (RowsOf(messages, SharedChat) = EmptyBag
                /\ RowsOf(messages', SharedChat) # EmptyBag)
               => \E q \in Procs : procs[q].pc \in {"insertChat", "insertMessages"}
                                     /\ procs'[q].pc = "done"]_vars

\* a call that had messages to save stopped after its delete, no other call is
\* running, and the chat is left without messages
C18_Witness ==
    \E p \in Procs :
        /\ procs[p].pc = "stopped" /\ procs[p].err = "insertMessages"
        /\ Len(procs[p].msgs) = MaxTurns
        /\ \A q \in Procs \ {p} : procs[q].pc = "idle"
        /\ FindChatByIdAndUser(chats, procs[p].chatId, procs[p].userId) # {}
        /\ RowsOf(messages, procs[p].chatId) = EmptyBag

\* C19: when two calls of one owner on one chat have both completed, the
\* messages of the chat are the list of one of the two calls: no order position
\* twice, no rows of both lists.
C19_OverlappingUpsertsLeaveOneList ==
    \A p, q \in Procs :
        (/\ p # q
         /\ procs[p].pc = "done" /\ procs[q].pc = "done"
         /\ procs[p].userId = procs[q].userId
         /\ procs[p].chatId = procs[q].chatId)
            => RowsOf(messages, procs[p].chatId)
                  \in {ExpectedRows(procs[p].chatId, procs[p].msgs),
                       ExpectedRows(procs[q].chatId, procs[q].msgs)}

(***************************************************************************)
(* Claims about the order of persistence and streaming, checked under Spec.*)
(***************************************************************************)
\* the chat of the request exists in the store under the requester
ChatPersisted(r) == FindChatByIdAndUser(chats, r.chatId, r.session) # {}

\* C20: the stream of a new-chat request is opened only after the upsert of the
\* request has succeeded, the chat then holding exactly the request's messages;
\* and whenever such a request has a stream, a frame or a model step, the chat
\* exists under the requester.
C20_NewChatPersistedBeforeStream ==
    /\ []((req.isNewChat /\ (req.state # "Idle" \/ Len(req.frames) > 0 \/ req.steps > 0))
            => (ChatPersisted(req) /\ req.wrote >= 1))
    /\ [][(req.isNewChat /\ req.state = "Idle" /\ req'.state # "Idle")
            => /\ ChatPersisted(req)
               /\ req.wrote = 1
               /\ RowsOf(messages, req.chatId) = ExpectedRows(req.chatId, req.msgs)]_vars

\* the model has answered a new-chat request and the save of onFinish is still
\* to come: the chat holds the request's messages
C20_Witness ==
    /\ req.isNewChat /\ req.pc = "onFinish" /\ req.wrote = 1
    /\ InFrames(req, "NEW_CHAT_CREATED") /\ InFrames(req, "text")
    /\ Len(req.msgs) = MaxReqMsgs
    /\ ChatPersisted(req)
    /\ RowsOf(messages, req.chatId) = ExpectedRows(req.chatId, req.msgs)

(***************************************************************************)
(* Claims about the save made when generation is over, checked under Spec. *)
(***************************************************************************)
\* the stream of the request is open and generation is not over
Generating(r) == r.pc \in {"model", "tools"}

\* the message rows of the chats other than c
RowsElsewhere(ms, c) == [r \in {x \in DOMAIN ms : x.chatId # c} |-> ms[r]]

\* C21: while the model generates, no table is written and no upsert is called;
\* when generation is over, upsertChat is called exactly once, for the chat id
\* and the user of the request, whose chat exists under that user; the write
\* the database takes leaves that chat with exactly the request's messages
\* followed by the response's, at orders 0..n-1, touches no other chat's
\* messages and adds no chat; and nothing is written once the request is done.
C21_SavedOnceOnCompletion ==
    [][/\ Generating(req)
            => (chats' = chats /\ messages' = messages /\ req'.wrote = req.wrote)
       /\ (req.pc = "done") => (chats' = chats /\ messages' = messages)
       /\ (req.pc = "onFinish" /\ req' # req)
            => /\ req'.pc = "done"
               /\ req'.wrote = req.wrote + 1
               /\ req'.chatId = req.chatId /\ req'.session = req.session
               /\ ChatPersisted(req)
               /\ {x.id : x \in chats'} = {x.id : x \in chats}
               /\ RowsElsewhere(messages', req.chatId)
                     = RowsElsewhere(messages, req.chatId)
               /\ IF req'.saveFailed
                  THEN chats' = chats /\ messages' = messages
                  ELSE /\ ChatPersisted(req')
                       /\ RowsOf(messages', req.chatId)
                             = ExpectedRows(req.chatId, req.msgs \o ResponseMessages)
                       /\ \A g \in GetChat(chats', messages', req.session, req.chatId) :
                             /\ g.found
                             /\ Len(g.messages) = Len(req.msgs) + Len(ResponseMessages)
                             /\ \A i \in 1..Len(req.msgs) :
                                   g.messages[i].role = req.msgs[i].role
                             /\ \A i \in 1..Len(ResponseMessages) :
                                   g.messages[Len(req.msgs) + i].role
                                      = ResponseMessages[i].role]_vars

\* a request on an existing chat of the requester went through tool steps and
\* was saved at its end, by its only upsert
C21_Witness ==
    /\ req.pc = "done" /\ req.state = "Completed" /\ ~req.isNewChat /\ req.wrote = 1
    /\ Len(req.msgs) = MaxReqMsgs
    /\ InFrames(req, "tool-result") /\ InFrames(req, "finish")
    /\ ChatPersisted(req)
    /\ RowsOf(messages, req.chatId) = ExpectedRows(req.chatId, req.msgs \o ResponseMessages)

====
